---- MODULE Spec2Model ----
(***************************************************************************)
(* VotingService: the poll store, the vote ledger and the completion       *)
(* detector of src/app.py over the tables of src/models.py.                *)
(*                                                                         *)
(* The committed tables are sets of rows.  Every HTTP request and the      *)
(* event consumer own a database session; a session's uncommitted rows     *)
(* live in that process's locals until its commit.  The store runs at      *)
(* READ COMMITTED: each query of a handler is one step and sees the rows   *)
(* committed at that moment.                                               *)
(***************************************************************************)
EXTENDS Integers, Sequences, FiniteSets, TLC

\* ---------------------------------------------------------------- bounds
NumReqs == 2          \* vote submissions (add_vote requests) in one run
MaxEvents == 2        \* messages delivered to the consumer in one run

Reqs == 1..NumReqs

\* ------------------------------------------------- nullable column values
Null == <<>>
Some(n) == <<n>>
IsNull(x) == x = Null
Val(x) == x[1]

\* ------------------------------------------------------------ input sets
Users == {"u1", "u2"}
MalformedUuid == 0
\* request bodies: the "vote" list of add_vote ("X" is on no poll)
VoteLists == {<<>>, <<"A">>, <<"B", "A">>, <<"A", "A">>, <<"A", "X">>}
\* what the roster (PermissionService) answers: an error, a non-list, a list
RosterAnswers == {[kind |-> "error", users |-> 0], [kind |-> "object", users |-> 0],
                  [kind |-> "list", users |-> 2]}
\* message bodies: undecodable bytes, JSON that is no object (an array), an
\* event of another type, voting.create
MessageKinds == {"garbage", "array", "other", "voting.create"}
\* payloads of voting.create events: a single poll with its expected_voters,
\* a ranked poll with an explicit poll_id that leaves expected_voters to the
\* roster, and three payloads the validation rejects
SinglePoll == [meeting_id |-> "m1", poll_id |-> Null, pollType |-> "single",
               options |-> <<"A", "B">>, expected_voters |-> Some(1)]
RankedPoll == [meeting_id |-> "m1", poll_id |-> Some(2), pollType |-> "ranked",
               options |-> <<"A", "B">>, expected_voters |-> Null]
Payloads == {SinglePoll, RankedPoll,
             [SinglePoll EXCEPT !.meeting_id = ""],
             [RankedPoll EXCEPT !.pollType = "approval"],
             [SinglePoll EXCEPT !.options = <<"A">>]}

VARIABLES
    polls,            \* table polls
    poll_options,     \* table poll_options
    votes,            \* table votes
    vote_selections,  \* table vote_selections
    poll_seq,         \* sequence behind polls.id
    option_seq,       \* sequence behind poll_options.id
    vote_seq,         \* sequence behind votes.id
    sel_seq,          \* sequence behind vote_selections.id
    published,        \* events handed to the broker, in order
    req,              \* locals of each add_vote request
    started,          \* number of add_vote requests begun
    consumer,         \* locals of the consumer callback
    delivered,        \* number of messages delivered to the callback
    query,            \* locals of the read-only request (get_poll, has_voted,
                      \* get_vote_count) being served
    replica           \* locals of the consumer callback of a second instance of
                      \* the service on the same queue and store

store == <<polls, poll_options, votes, vote_selections>>
seqs == <<poll_seq, option_seq, vote_seq, sel_seq>>
vars == <<polls, poll_options, votes, vote_selections, poll_seq, option_seq,
          vote_seq, sel_seq, published, req, started, consumer, delivered, query,
          replica>>

\* ------------------------------------------------------------- responses
NoResponse == [status |-> 0, error |-> "", detail |-> ""]
Response(s, e, d) == [status |-> s, error |-> e, detail |-> d]

\* ---------------------------------------------------------- table queries
RECURSIVE SeqToSet(_)
SeqToSet(s) == IF s = <<>> THEN {} ELSE {Head(s)} \cup SeqToSet(Tail(s))

PollByUuid(u) == {p \in polls : p.uuid = u}
PollById(i) == {p \in polls : p.id = i}
OptionsOf(pid) == {o \in poll_options : o.poll_id = pid}
VotesOf(pid) == {v \in votes : v.poll_id = pid}
SelectionsOfVote(vid) == {s \in vote_selections : s.vote_id = vid}
ExistingVote(pid, uid) == {v \in votes : v.poll_id = pid /\ v.user_id = uid}

\* option_map of add_vote: option_value -> poll_options.id
OptionMap(pid) == [val \in {o.option_value : o \in OptionsOf(pid)} |->
                      (CHOOSE o \in OptionsOf(pid) : o.option_value = val).id]

\* a faulty variant: only the first selected value is looked up
FirstInvalid_HeadOnly(selected, omap) ==
    IF selected # <<>> /\ selected[1] \notin DOMAIN omap THEN 1 ELSE 0

\* the position of the first selected value that is no key of the option
\* map, as the validation loop of add_vote finds it; 0 when all are valid
FirstInvalid(selected, omap) ==
    LET bad == {i \in 1..Len(selected) : selected[i] \notin DOMAIN omap}
    IN  IF bad = {} THEN 0 ELSE CHOOSE i \in bad : \A j \in bad : i <= j

\* a faulty variant: a ranked poll counts the selections of every rank
Tally_AllRanks(pid, ptype) ==
    [val \in {o.option_value : o \in OptionsOf(pid)} |->
        LET oid == (CHOOSE o \in OptionsOf(pid) : o.option_value = val).id
        IN  Cardinality({s \in vote_selections : s.poll_option_id = oid})]

\* the results summary of add_vote (lines 265-277): per option value, the
\* number of selections of the option (single), or of its rank-1 selections
\* (ranked)
Tally(pid, ptype) ==
    [val \in {o.option_value : o \in OptionsOf(pid)} |->
        LET oid == (CHOOSE o \in OptionsOf(pid) : o.option_value = val).id
        IN  IF ptype = "single"
            THEN Cardinality({s \in vote_selections : s.poll_option_id = oid})
            ELSE Cardinality({s \in vote_selections :
                                 s.poll_option_id = oid /\ s.rank_order = Some(1)})]

\* a faulty variant: a single poll takes up to two selections
SingleTooMany_OffByOne(ptype, selected) == ptype = "single" /\ Len(selected) > 2

\* line 218: more than one selection on a single poll
SingleTooMany(ptype, selected) == ptype = "single" /\ Len(selected) > 1

\* a faulty variant: the store has no unique constraint on votes
UniqueVoteViolated_Off(pid, uid) == FALSE

\* uix_votes_pollid_userid: a committed votes row holds the key
UniqueVoteViolated(pid, uid) == ExistingVote(pid, uid) # {}

\* a faulty variant: the threshold is met one vote early
ShouldComplete_OneEarly(expected, total, completed) ==
    ~IsNull(expected) /\ total + 1 >= Val(expected) /\ ~completed

\* a faulty variant: the threshold must be exceeded
ShouldComplete_Strict(expected, total, completed) ==
    ~IsNull(expected) /\ total > Val(expected) /\ ~completed

\* a faulty variant: the completed flag is not looked at
ShouldComplete_Again(expected, total, completed) ==
    ~IsNull(expected) /\ total >= Val(expected)

\* line 258: expected is not None and total_votes >= expected and not completed
ShouldComplete(expected, total, completed) ==
    ~IsNull(expected) /\ total >= Val(expected) /\ ~completed

\* a faulty variant: the primary key of polls is not enforced
PrimaryKeyTaken_Off(id) == FALSE

\* polls.id is the primary key: a committed row holds the id
PrimaryKeyTaken(id) == PollById(id) # {}

\* ----------------------------------------------- locals of one add_vote
IdleReq == [pc |-> "idle", poll_uuid |-> 0, user |-> "", selected |-> <<>>,
            poll |-> Null, option_map |-> <<>>, vote |-> Null,
            total_votes |-> 0, results |-> <<>>, response |-> NoResponse]

\* the request returns: its locals are gone, its response stays; a request
\* that reached the ledger keeps what it submitted (poll_uuid, user, selected)
Return(r, resp) ==
    req' = [req EXCEPT ![r] = [IdleReq EXCEPT !.pc = "done", !.response = resp]]
ReturnSubmitted(r, resp) ==
    req' = [req EXCEPT ![r] = [IdleReq EXCEPT !.pc = "done", !.response = resp,
                                  !.poll_uuid = req[r].poll_uuid,
                                  !.user = req[r].user,
                                  !.selected = req[r].selected,
                                  !.vote = req[r].vote]]

\* ------------------------------------------------------------- add_vote
\* a faulty variant: an empty selection list is let through
NoSelection_Allowed(selected) == FALSE

\* line 196: not selected
NoSelection(selected) == selected = <<>>

\* lines 180-204: parse the uuid, load the poll, read the body, authorize
AddVoteBegin(r) ==
    /\ req[r].pc = "idle"
    /\ started = r - 1
    /\ started' = r
    /\ \E u \in {MalformedUuid} \cup (1..MaxEvents), body \in {Null} \cup {Some(l) : l \in VoteLists},
          user \in Users \cup {""}, role \in BOOLEAN :
        IF u = MalformedUuid THEN Return(r, Response(400, "Invalid poll UUID", ""))
        ELSE IF PollByUuid(u) = {} THEN Return(r, Response(404, "Poll not found", ""))
        ELSE IF IsNull(body) THEN Return(r, Response(400, "Missing 'vote' in request body", ""))
        ELSE IF NoSelection(Val(body)) THEN Return(r, Response(400, "No options selected", ""))
        ELSE IF user = "" THEN Return(r, Response(401, "Unauthorized", ""))
        ELSE IF ~role THEN Return(r, Response(403, "Forbidden", ""))
        ELSE req' = [req EXCEPT ![r] = [IdleReq EXCEPT !.pc = "options",
                                           !.poll_uuid = u, !.user = user,
                                           !.selected = Val(body),
                                           !.poll = Some(CHOOSE p \in PollByUuid(u) : TRUE)]]
    /\ UNCHANGED <<replica, query, store, seqs, published, consumer, delivered>>

\* lines 206-219: load the options, validate the selection
AddVoteOptions(r) ==
    /\ req[r].pc = "options"
    /\ LET poll == Val(req[r].poll)
           omap == OptionMap(poll.id)
           bad == FirstInvalid(req[r].selected, omap)
       IN  IF bad # 0 THEN Return(r, Response(400, "Invalid option", req[r].selected[bad]))
           ELSE IF SingleTooMany(poll.poll_type, req[r].selected)
                THEN Return(r, Response(400, "Single choice poll allows only one selection", ""))
           ELSE req' = [req EXCEPT ![r].pc = "existing", ![r].option_map = omap]
    /\ UNCHANGED <<replica, query, store, seqs, published, started, consumer, delivered>>

\* lines 223-230: the application-level duplicate check
AddVoteExisting(r) ==
    /\ req[r].pc = "existing"
    /\ IF ExistingVote(Val(req[r].poll).id, req[r].user) # {}
       THEN ReturnSubmitted(r, Response(409, "User has already voted on this poll", ""))
       ELSE req' = [req EXCEPT ![r].pc = "flush"]
    /\ UNCHANGED <<replica, query, store, seqs, published, started, consumer, delivered>>

\* an uncommitted votes row of another session with the same unique key:
\* the store makes the INSERT wait for that session to commit or roll back
VoteInsertWaits(r, pid, uid) ==
    \E o \in Reqs \ {r} : /\ req[o].pc = "commit"
                          /\ Val(req[o].vote).poll_id = pid
                          /\ Val(req[o].vote).user_id = uid

\* lines 232-238: INSERT the Vote (flush); uix_votes_pollid_userid is checked
\* by the store, its violation is an IntegrityError nobody catches (500)
AddVoteFlush(r) ==
    /\ req[r].pc = "flush"
    /\ LET pid == Val(req[r].poll).id
           uid == req[r].user
       IN  /\ ~VoteInsertWaits(r, pid, uid)
           /\ vote_seq' = vote_seq + 1
           /\ IF UniqueVoteViolated(pid, uid)
              THEN ReturnSubmitted(r, Response(500, "IntegrityError", "uix_votes_pollid_userid"))
              ELSE req' = [req EXCEPT ![r].pc = "commit",
                                      ![r].vote = Some([id |-> vote_seq + 1,
                                                        poll_id |-> pid, user_id |-> uid])]
    /\ UNCHANGED <<replica, query, store, poll_seq, option_seq, sel_seq, published, started, consumer, delivered>>

\* a faulty variant: the ranks are the 0-based positions
SelectionRows_ZeroBased(vid, selected, omap, ptype, base) ==
    [i \in 1..Len(selected) |->
        [id |-> base + i, vote_id |-> vid, poll_option_id |-> omap[selected[i]],
         rank_order |-> IF ptype = "ranked" THEN Some(i - 1) ELSE Null]]

\* lines 240-250: the VoteSelection rows of a vote, ranked by position
SelectionRows(vid, selected, omap, ptype, base) ==
    [i \in 1..Len(selected) |->
        [id |-> base + i, vote_id |-> vid, poll_option_id |-> omap[selected[i]],
         rank_order |-> IF ptype = "ranked" THEN Some(i) ELSE Null]]

\* uix_voteselections_voteid_optionid and uix_voteselections_voteid_rank
\* (a NULL rank never collides)
SelectionsUnique(rows) ==
    \A i, j \in DOMAIN rows : i # j =>
        /\ ~(rows[i].vote_id = rows[j].vote_id /\ rows[i].poll_option_id = rows[j].poll_option_id)
        /\ ~(rows[i].vote_id = rows[j].vote_id /\ ~IsNull(rows[i].rank_order)
               /\ rows[i].rank_order = rows[j].rank_order)

\* a faulty variant: the rows inserted before the violation stay
AddVoteCommit_Partial(r) ==
    /\ req[r].pc = "commit"
    /\ LET vote == Val(req[r].vote)
           rows == SelectionRows(vote.id, req[r].selected, req[r].option_map,
                                 Val(req[r].poll).poll_type, sel_seq)
       IN  /\ sel_seq' = sel_seq + Len(req[r].selected)
           /\ votes' = votes \cup {vote}
           /\ IF SelectionsUnique(rows)
              THEN /\ vote_selections' = vote_selections \cup SeqToSet(rows)
                   /\ req' = [req EXCEPT ![r].pc = "refresh", ![r].poll = Null]
              ELSE /\ vote_selections' = vote_selections \cup {rows[1]}
                   /\ ReturnSubmitted(r, Response(500, "IntegrityError", "uix_voteselections"))
    /\ UNCHANGED <<replica, query, polls, poll_options, poll_seq, option_seq, vote_seq, published,
                   started, consumer, delivered>>

\* lines 240-252: INSERT the selections and COMMIT; a constraint violation
\* rolls the whole transaction back (500)
AddVoteCommit(r) ==
    /\ req[r].pc = "commit"
    /\ LET vote == Val(req[r].vote)
           rows == SelectionRows(vote.id, req[r].selected, req[r].option_map,
                                 Val(req[r].poll).poll_type, sel_seq)
       IN  /\ sel_seq' = sel_seq + Len(req[r].selected)
           /\ IF SelectionsUnique(rows)
              THEN /\ votes' = votes \cup {vote}
                   /\ vote_selections' = vote_selections \cup SeqToSet(rows)
                   /\ req' = [req EXCEPT ![r].pc = "refresh", ![r].poll = Null]
              ELSE /\ UNCHANGED <<votes, vote_selections>>
                   /\ ReturnSubmitted(r, Response(500, "IntegrityError", "uix_voteselections"))
    /\ UNCHANGED <<replica, query, polls, poll_options, poll_seq, option_seq, vote_seq, published,
                   started, consumer, delivered>>

\* line 255, the access to poll.id: the commit expired the Poll object, so
\* the session reloads the row (expected_voters and completed with it)
AddVoteRefresh(r) ==
    /\ req[r].pc = "refresh"
    /\ req' = [req EXCEPT ![r].pc = "count",
                          ![r].poll = Some(CHOOSE p \in polls : p.uuid = req[r].poll_uuid)]
    /\ UNCHANGED <<replica, query, store, seqs, published, started, consumer, delivered>>

\* lines 255-258: count the votes of the poll, decide whether to complete
AddVoteCount(r) ==
    /\ req[r].pc = "count"
    /\ LET poll == Val(req[r].poll)
           total == Cardinality(VotesOf(poll.id))
       IN  IF ShouldComplete(poll.expected_voters, total, poll.completed)
           THEN req' = [req EXCEPT ![r].pc = "complete", ![r].total_votes = total]
           ELSE ReturnSubmitted(r, Response(200, "Vote recorded successfully", ""))
    /\ UNCHANGED <<replica, query, store, seqs, published, started, consumer, delivered>>

\* a faulty variant: the UPDATE also writes the number of votes as expected_voters
AddVoteComplete_Rewrites(r) ==
    /\ req[r].pc = "complete"
    /\ polls' = {IF p.id = Val(req[r].poll).id
                 THEN [p EXCEPT !.completed = TRUE, !.expected_voters = Some(req[r].total_votes)]
                 ELSE p : p \in polls}
    /\ req' = [req EXCEPT ![r].pc = "tally", ![r].poll = Null]
    /\ UNCHANGED <<replica, query, poll_options, votes, vote_selections, seqs, published, started,
                   consumer, delivered>>

\* lines 259-262: UPDATE polls SET completed = true WHERE id = poll.id; COMMIT
AddVoteComplete(r) ==
    /\ req[r].pc = "complete"
    /\ polls' = {IF p.id = Val(req[r].poll).id THEN [p EXCEPT !.completed = TRUE] ELSE p
                 : p \in polls}
    /\ req' = [req EXCEPT ![r].pc = "tally", ![r].poll = Null]
    /\ UNCHANGED <<replica, query, poll_options, votes, vote_selections, seqs, published, started,
                   consumer, delivered>>

\* lines 264-277: reload the poll, build the results summary
AddVoteTally(r) ==
    /\ req[r].pc = "tally"
    /\ LET poll == CHOOSE p \in polls : p.uuid = req[r].poll_uuid
       IN  req' = [req EXCEPT ![r].pc = "publish", ![r].poll = Some(poll),
                              ![r].results = Tally(poll.id, poll.poll_type)]
    /\ UNCHANGED <<replica, query, store, seqs, published, started, consumer, delivered>>

\* a faulty variant: a failed publish fails the request
AddVotePublish_Raises(r) ==
    /\ req[r].pc = "publish"
    /\ LET poll == Val(req[r].poll)
           event == [event_type |-> "voting.completed", poll_id |-> poll.uuid,
                     meeting_id |-> poll.meeting_id, results |-> req[r].results,
                     total_votes |-> req[r].total_votes]
       IN  \E delivered_ok \in BOOLEAN :
              IF delivered_ok
              THEN /\ published' = Append(published, event)
                   /\ ReturnSubmitted(r, Response(200, "Vote recorded successfully", ""))
              ELSE /\ published' = published
                   /\ ReturnSubmitted(r, Response(500, "AMQPError", ""))
    /\ UNCHANGED <<replica, query, store, seqs, started, consumer, delivered>>

\* lines 279-296: publish voting.completed, best effort; then answer 200
AddVotePublish(r) ==
    /\ req[r].pc = "publish"
    /\ LET poll == Val(req[r].poll)
           event == [event_type |-> "voting.completed", poll_id |-> poll.uuid,
                     meeting_id |-> poll.meeting_id, results |-> req[r].results,
                     total_votes |-> req[r].total_votes]
       IN  \E delivered_ok \in BOOLEAN :
              published' = IF delivered_ok THEN Append(published, event) ELSE published
    /\ ReturnSubmitted(r, Response(200, "Vote recorded successfully", ""))
    /\ UNCHANGED <<replica, query, store, seqs, started, consumer, delivered>>

\* ------------------------------------------- the consumer (mq.py, on_event)
\* last: how the last message was settled (ack, or nack with requeue);
\* error: the exception its handling raised; roster: what the roster answered
\* to this handler ("none": not asked)
IdleConsumer == [pc |-> "idle", vote_data |-> Null, expected_voters |-> Null,
                 roster |-> "none", poll |-> Null, last |-> "", error |-> ""]

\* a faulty variant: every exception is answered with a nack
SettleWith_NackOnError(outcome, err, logged) ==
    consumer' = [IdleConsumer EXCEPT !.last = IF err = "" THEN outcome ELSE "nack",
                                     !.error = err, !.vote_data = logged]

\* the callback is over: basic_ack or basic_nack(requeue=True); the handler's
\* locals are gone; the exception it met and the vote_data it printed (app.py
\* lines 50 and 54) stay on the log
SettleWith(outcome, err, logged) ==
    consumer' = [IdleConsumer EXCEPT !.last = outcome, !.error = err,
                                     !.vote_data = logged]
SettleError(outcome, err) == SettleWith(outcome, err, consumer.vote_data)
Settle(outcome) == SettleError(outcome, "")

\* the server default gen_random_uuid() of polls.uuid: a value no other row has
GenRandomUuid(id) == id

\* a faulty variant: the number of options is not checked
ValidationError_AnyOptions(vote_data) ==
    IF vote_data.meeting_id = "" THEN "Missing 'meeting_id'"
    ELSE IF vote_data.pollType \notin {"single", "ranked"} THEN "Invalid 'pollType'"
    ELSE ""

\* create_poll_from_vote_data lines 67-79: the ValueError raised, "" if none
ValidationError(vote_data) ==
    IF vote_data.meeting_id = "" THEN "Missing 'meeting_id'"
    ELSE IF vote_data.pollType \notin {"single", "ranked"} THEN "Invalid 'pollType'"
    ELSE IF Len(vote_data.options) < 2 THEN "At least 2 options are required"
    ELSE ""

\* a faulty variant: the roster is asked first
ExpectedVoters_RosterFirst(vote_data, answer) ==
    IF answer.kind = "list" THEN Some(answer.users)
    ELSE vote_data.expected_voters

\* lines 81-96: the payload's expected_voters, else the roster's list length,
\* else None
ExpectedVoters(vote_data, answer) ==
    IF ~IsNull(vote_data.expected_voters) THEN vote_data.expected_voters
    ELSE IF answer.kind = "list" THEN Some(answer.users)
    ELSE Null

\* mq.py callback lines 49-55 with on_event and create_poll_from_vote_data
\* lines 67-96: decode, dispatch, validate, ask the roster
CallbackFrom(payloads) ==
    /\ consumer.pc = "idle"
    /\ delivered < MaxEvents
    /\ delivered' = delivered + 1
    /\ \E kind \in MessageKinds :
        IF kind = "garbage" THEN SettleWith("nack", "JSONDecodeError", Null) \* json.loads raises
        ELSE IF kind = "array" THEN SettleWith("nack", "AttributeError", Null) \* event.get raises
        ELSE IF kind # "voting.create" THEN SettleWith("ack", "", Null)
        ELSE \E vote_data \in payloads :
            IF ValidationError(vote_data) # ""
            THEN SettleWith("ack", "ValueError", Some(vote_data)) \* on_event swallows it
            ELSE \E answer \in RosterAnswers :
                consumer' = [IdleConsumer EXCEPT !.pc = "flush", !.vote_data = Some(vote_data),
                                !.roster = IF IsNull(vote_data.expected_voters)
                                           THEN answer.kind ELSE "none",
                                !.expected_voters = ExpectedVoters(vote_data, answer)]
    /\ UNCHANGED <<replica, query, store, seqs, published, req, started>>

ConsumerCallback == CallbackFrom(Payloads)

\* an uncommitted polls row of another session with the same primary key:
\* the store makes the INSERT wait for that session to commit or roll back
PollInsertWaits(other, id) == other.pc = "commit" /\ Val(other.poll).id = id

\* lines 98-100: INSERT the Poll (flush); the primary key is the payload's
\* poll_id, or the next value of the sequence; a taken key is an IntegrityError
CreateFlush ==
    /\ consumer.pc = "flush"
    /\ LET vote_data == Val(consumer.vote_data)
           auto == IsNull(vote_data.poll_id)
           id == IF auto THEN poll_seq + 1 ELSE Val(vote_data.poll_id)
       IN  /\ ~PollInsertWaits(replica, id)
           /\ poll_seq' = IF auto THEN poll_seq + 1 ELSE poll_seq
           /\ IF PrimaryKeyTaken(id)
              THEN SettleError("ack", "IntegrityError")
              ELSE consumer' = [consumer EXCEPT !.pc = "commit",
                      !.poll = Some([id |-> id, uuid |-> GenRandomUuid(id),
                                     meeting_id |-> vote_data.meeting_id,
                                     poll_type |-> vote_data.pollType,
                                     expected_voters |-> consumer.expected_voters,
                                     completed |-> FALSE])]
    /\ UNCHANGED <<replica, query, store, option_seq, vote_seq, sel_seq, published, req, started, delivered>>

\* lines 103-108: the PollOption rows, ordered by position from 0
OptionRows(pid, options, base) ==
    [i \in 1..Len(options) |->
        [id |-> base + i, poll_id |-> pid, option_value |-> options[i],
         option_order |-> i - 1]]

\* uix_polloption_pollid_value and uix_polloption_pollid_order
OptionsUnique(rows) ==
    \A i, j \in DOMAIN rows : i # j =>
        /\ ~(rows[i].poll_id = rows[j].poll_id /\ rows[i].option_value = rows[j].option_value)
        /\ ~(rows[i].poll_id = rows[j].poll_id /\ rows[i].option_order = rows[j].option_order)

\* lines 103-110: INSERT the options and COMMIT
CreateCommit ==
    /\ consumer.pc = "commit"
    /\ LET poll == Val(consumer.poll)
           options == Val(consumer.vote_data).options
           rows == OptionRows(poll.id, options, option_seq)
       IN  /\ option_seq' = option_seq + Len(options)
           /\ IF OptionsUnique(rows)
              THEN /\ polls' = polls \cup {poll}
                   /\ poll_options' = poll_options \cup SeqToSet(rows)
                   /\ consumer' = [consumer EXCEPT !.pc = "publish"]
              ELSE /\ UNCHANGED <<polls, poll_options>>
                   /\ SettleError("ack", "IntegrityError")
    /\ UNCHANGED <<replica, query, votes, vote_selections, poll_seq, vote_seq, sel_seq, published,
                   req, started, delivered>>

\* lines 112-130 and mq.py line 53: publish voting.created, best effort; ack
CreatePublish ==
    /\ consumer.pc = "publish"
    /\ LET poll == Val(consumer.poll)
           event == [event_type |-> "voting.created", poll_uuid |-> poll.uuid,
                     poll_id |-> poll.id, meeting_id |-> poll.meeting_id]
       IN  \E delivered_ok \in BOOLEAN :
              published' = IF delivered_ok THEN Append(published, event) ELSE published
    /\ Settle("ack")
    /\ UNCHANGED <<replica, query, store, seqs, req, started, delivered>>

\* ------------------------------- a second instance on the same queue
\* the broker delivers to the second instance a voting.create message that the
\* first instance has taken (it is handling it, or has settled it): mq.py
\* callback lines 49-55 with create_poll_from_vote_data lines 67-96
RedeliverCallback ==
    /\ replica.pc = "idle"
    /\ delivered < MaxEvents
    /\ delivered' = delivered + 1
    /\ ~IsNull(consumer.vote_data)
    /\ LET vote_data == Val(consumer.vote_data)
       IN  IF ValidationError(vote_data) # ""
           THEN replica' = [IdleConsumer EXCEPT !.last = "ack", !.error = "ValueError",
                                                !.vote_data = Some(vote_data)]
           ELSE \E answer \in RosterAnswers :
               replica' = [IdleConsumer EXCEPT !.pc = "flush", !.vote_data = Some(vote_data),
                              !.roster = IF IsNull(vote_data.expected_voters)
                                         THEN answer.kind ELSE "none",
                              !.expected_voters = ExpectedVoters(vote_data, answer)]
    /\ UNCHANGED <<consumer, query, store, seqs, published, req, started>>

\* the second instance's callback is over
ReplicaSettle(outcome, err) ==
    replica' = [IdleConsumer EXCEPT !.last = outcome, !.error = err,
                                    !.vote_data = replica.vote_data]

\* lines 98-100 in the second instance
ReplicaFlush ==
    /\ replica.pc = "flush"
    /\ LET vote_data == Val(replica.vote_data)
           auto == IsNull(vote_data.poll_id)
           id == IF auto THEN poll_seq + 1 ELSE Val(vote_data.poll_id)
       IN  /\ ~PollInsertWaits(consumer, id)
           /\ poll_seq' = IF auto THEN poll_seq + 1 ELSE poll_seq
           /\ IF PrimaryKeyTaken(id)
              THEN ReplicaSettle("ack", "IntegrityError")
              ELSE replica' = [replica EXCEPT !.pc = "commit",
                      !.poll = Some([id |-> id, uuid |-> GenRandomUuid(id),
                                     meeting_id |-> vote_data.meeting_id,
                                     poll_type |-> vote_data.pollType,
                                     expected_voters |-> replica.expected_voters,
                                     completed |-> FALSE])]
    /\ UNCHANGED <<consumer, query, store, option_seq, vote_seq, sel_seq, published, req,
                   started, delivered>>

\* lines 103-110 in the second instance
ReplicaCommit ==
    /\ replica.pc = "commit"
    /\ LET poll == Val(replica.poll)
           options == Val(replica.vote_data).options
           rows == OptionRows(poll.id, options, option_seq)
       IN  /\ option_seq' = option_seq + Len(options)
           /\ IF OptionsUnique(rows)
              THEN /\ polls' = polls \cup {poll}
                   /\ poll_options' = poll_options \cup SeqToSet(rows)
                   /\ replica' = [replica EXCEPT !.pc = "publish"]
              ELSE /\ UNCHANGED <<polls, poll_options>>
                   /\ ReplicaSettle("ack", "IntegrityError")
    /\ UNCHANGED <<consumer, query, votes, vote_selections, poll_seq, vote_seq, sel_seq,
                   published, req, started, delivered>>

\* lines 112-130 and mq.py line 53 in the second instance
ReplicaPublish ==
    /\ replica.pc = "publish"
    /\ LET poll == Val(replica.poll)
           event == [event_type |-> "voting.created", poll_uuid |-> poll.uuid,
                     poll_id |-> poll.id, meeting_id |-> poll.meeting_id]
       IN  \E delivered_ok \in BOOLEAN :
              published' = IF delivered_ok THEN Append(published, event) ELSE published
    /\ ReplicaSettle("ack", "")
    /\ UNCHANGED <<consumer, query, store, seqs, req, started, delivered>>

\* ------------------------------------------------ the read-only requests
IdleQuery == [pc |-> "idle", kind |-> "", poll |-> Null, options |-> <<>>,
              votes |-> <<>>, response |-> NoResponse, body |-> <<>>]

\* the answer of a read-only request: a status with an error, or 200 with
\* a body; the handler's locals are gone
Answer(kind, resp, body) ==
    query' = [IdleQuery EXCEPT !.pc = "done", !.kind = kind, !.response = resp,
                               !.body = body]

\* ORDER BY option_order, a key no two options of a poll share
RECURSIVE ByOptionOrder(_)
ByOptionOrder(rows) ==
    IF rows = {} THEN <<>>
    ELSE LET first == CHOOSE o \in rows : \A x \in rows : o.option_order <= x.option_order
         IN  <<first>> \o ByOptionOrder(rows \ {first})

\* a faulty variant: the options come back last first
ListOptions_Descending(pid) ==
    LET sorted == ByOptionOrder(OptionsOf(pid))
    IN  [i \in DOMAIN sorted |-> sorted[Len(sorted) + 1 - i].option_value]

\* get_poll lines 153-158: the option values ordered by option_order
ListOptions(pid) ==
    LET sorted == ByOptionOrder(OptionsOf(pid))
    IN  [i \in DOMAIN sorted |-> sorted[i].option_value]

\* get_poll lines 136-164: the poll and its options are written once, by one
\* commit, so the two SELECTs of the handler see one state of them
GetPoll ==
    /\ query.pc \in {"idle", "done"}
    /\ \E u \in {MalformedUuid} \cup (1..MaxEvents), user \in Users \cup {""},
          role \in BOOLEAN :
        IF u = MalformedUuid THEN Answer("get_poll", Response(400, "Invalid poll UUID", ""), <<>>)
        ELSE IF PollByUuid(u) = {}
             THEN Answer("get_poll", Response(404, "Poll not found", ""), <<>>)
        ELSE IF user = "" THEN Answer("get_poll", Response(401, "Unauthorized", ""), <<>>)
        ELSE IF ~role THEN Answer("get_poll", Response(403, "Forbidden", ""), <<>>)
        ELSE LET poll == CHOOSE p \in PollByUuid(u) : TRUE
             IN  Answer("get_poll", Response(200, "", ""),
                        [uuid |-> u, meeting_id |-> poll.meeting_id,
                         pollType |-> poll.poll_type, options |-> ListOptions(poll.id)])
    /\ UNCHANGED <<replica, store, seqs, published, req, started, consumer, delivered>>

\* has_voted lines 301-324
HasVoted ==
    /\ query.pc \in {"idle", "done"}
    /\ \E u \in {MalformedUuid} \cup (1..MaxEvents), user \in Users \cup {""},
          role \in BOOLEAN :
        IF u = MalformedUuid THEN Answer("has_voted", Response(400, "Invalid poll UUID", ""), <<>>)
        ELSE IF PollByUuid(u) = {}
             THEN Answer("has_voted", Response(404, "Poll not found", ""), <<>>)
        ELSE IF user = "" THEN Answer("has_voted", Response(401, "Unauthorized", ""), <<>>)
        ELSE IF ~role THEN Answer("has_voted", Response(403, "Forbidden", ""), <<>>)
        ELSE LET poll == CHOOSE p \in PollByUuid(u) : TRUE
             IN  Answer("has_voted", Response(200, "", ""),
                        [poll_uuid |-> u, user |-> user,
                         has_voted |-> ExistingVote(poll.id, user) # {}])
    /\ UNCHANGED <<replica, store, seqs, published, req, started, consumer, delivered>>

\* get_vote_count lines 349-368: per option value, the number of selections
\* of the option (single), or of its rank-1 selections (ranked)
VoteCounts(pid, ptype) ==
    LET poll_options_ == ByOptionOrder(OptionsOf(pid))
        Count(option) ==
            IF ptype = "single"
            THEN Cardinality({s \in vote_selections : s.poll_option_id = option.id})
            ELSE Cardinality({s \in vote_selections :
                                 s.poll_option_id = option.id /\ s.rank_order = Some(1)})
    IN  [val \in {poll_options_[i].option_value : i \in DOMAIN poll_options_} |->
            Count(CHOOSE o \in OptionsOf(pid) : o.option_value = val)]

\* get_vote_count lines 333-347: load the poll, authenticate, authorize
GetVoteCountBegin ==
    /\ query.pc \in {"idle", "done"}
    /\ \E u \in {MalformedUuid} \cup (1..MaxEvents), user \in Users \cup {""},
          role \in BOOLEAN :
        IF u = MalformedUuid
        THEN Answer("get_vote_count", Response(400, "Invalid poll UUID", ""), <<>>)
        ELSE IF PollByUuid(u) = {}
             THEN Answer("get_vote_count", Response(404, "Poll not found", ""), <<>>)
        ELSE IF user = "" THEN Answer("get_vote_count", Response(401, "Unauthorized'", ""), <<>>)
        ELSE IF ~role THEN Answer("get_vote_count", Response(403, "Forbidden", ""), <<>>)
        ELSE query' = [IdleQuery EXCEPT !.pc = "counts", !.kind = "get_vote_count",
                          !.poll = Some(CHOOSE p \in PollByUuid(u) : TRUE)]
    /\ UNCHANGED <<replica, store, seqs, published, req, started, consumer, delivered>>

\* lines 349-368: the options and the count of each
GetVoteCountVotes ==
    /\ query.pc = "counts"
    /\ LET poll == Val(query.poll)
       IN  query' = [query EXCEPT !.pc = "roster",
                                  !.votes = VoteCounts(poll.id, poll.poll_type)]
    /\ UNCHANGED <<replica, store, seqs, published, req, started, consumer, delivered>>

\* lines 370-395: the eligible voters from the roster, else the number of
\* votes cast; the answer
GetVoteCountRoster ==
    /\ query.pc = "roster"
    /\ LET poll == Val(query.poll)
       IN  \E answer \in RosterAnswers :
              LET eligible_voters ==
                      IF answer.kind = "list" THEN answer.users
                      ELSE IF answer.kind = "object" THEN 0
                      ELSE Cardinality(VotesOf(poll.id))
              IN  Answer("get_vote_count", Response(200, "", ""),
                         [poll_uuid |-> poll.uuid, eligible_voters |-> eligible_voters,
                          votes |-> query.votes])
    /\ UNCHANGED <<replica, store, seqs, published, req, started, consumer, delivered>>

\* ---------------------------------------------------------- specification
Init ==
    /\ polls = {} /\ poll_options = {} /\ votes = {} /\ vote_selections = {}
    /\ poll_seq = 0 /\ option_seq = 0 /\ vote_seq = 0 /\ sel_seq = 0
    /\ published = <<>>
    /\ req = [r \in Reqs |-> IdleReq]
    /\ started = 0
    /\ consumer = IdleConsumer
    /\ delivered = 0
    /\ query = IdleQuery
    /\ replica = IdleConsumer

Next ==
    \/ \E r \in Reqs : AddVoteBegin(r)
    \/ \E r \in Reqs : AddVoteOptions(r)
    \/ \E r \in Reqs : AddVoteExisting(r)
    \/ \E r \in Reqs : AddVoteFlush(r)
    \/ \E r \in Reqs : AddVoteCommit(r)
    \/ \E r \in Reqs : AddVoteRefresh(r)
    \/ \E r \in Reqs : AddVoteCount(r)
    \/ \E r \in Reqs : AddVoteComplete(r)
    \/ \E r \in Reqs : AddVoteTally(r)
    \/ \E r \in Reqs : AddVotePublish(r)
    \/ ConsumerCallback
    \/ CreateFlush
    \/ CreateCommit
    \/ CreatePublish

Spec == Init /\ [][Next]_vars

\* the poll store alone: the consumer takes voting.create events with every
\* combination of payload fields, and get_poll reads the polls back
WidePayloads == [meeting_id : {"m1", ""}, poll_id : {Null, Some(1)},
                 pollType : {"single", "ranked", "approval"},
                 options : {<<"A">>, <<"B", "A", "C">>, <<"A", "A">>, <<"A", "">>},
                 expected_voters : {Null, Some(1)}]

ConsumerCallbackWide == CallbackFrom(WidePayloads)

NextCreate ==
    \/ ConsumerCallbackWide
    \/ CreateFlush
    \/ CreateCommit
    \/ CreatePublish
    \/ GetPoll

SpecCreate == Init /\ [][NextCreate]_vars

\* two instances of the service on one queue and one store: a message taken
\* by the first is delivered again, to the second, while or after the first
\* handles it
NextRedelivery ==
    \/ ConsumerCallbackWide
    \/ CreateFlush
    \/ CreateCommit
    \/ CreatePublish
    \/ RedeliverCallback
    \/ ReplicaFlush
    \/ ReplicaCommit
    \/ ReplicaPublish

SpecRedelivery == Init /\ [][NextRedelivery]_vars

\* the votes and the read-only requests on two polls already created: the
\* state after the consumer has handled SinglePoll and RankedPoll, the roster
\* having answered with a list
CreatedPoll(vote_data, id, expected_voters) ==
    [id |-> id, uuid |-> GenRandomUuid(id), meeting_id |-> vote_data.meeting_id,
     poll_type |-> vote_data.pollType, expected_voters |-> expected_voters,
     completed |-> FALSE]

InitQuery ==
    /\ polls = {CreatedPoll(SinglePoll, 1, SinglePoll.expected_voters),
                 CreatedPoll(RankedPoll, Val(RankedPoll.poll_id), Some(2))}
    /\ poll_options = SeqToSet(OptionRows(1, SinglePoll.options, 0))
                        \cup SeqToSet(OptionRows(Val(RankedPoll.poll_id), RankedPoll.options,
                                                 Len(SinglePoll.options)))
    /\ votes = {} /\ vote_selections = {}
    /\ poll_seq = 1 /\ option_seq = Len(SinglePoll.options) + Len(RankedPoll.options)
    /\ vote_seq = 0 /\ sel_seq = 0
    /\ published = <<>>
    /\ req = [r \in Reqs |-> IdleReq]
    /\ started = 0
    /\ consumer = [IdleConsumer EXCEPT !.last = "ack", !.vote_data = Some(RankedPoll)]
    /\ delivered = MaxEvents
    /\ query = IdleQuery
    /\ replica = IdleConsumer

NextQuery ==
    \/ \E r \in Reqs : AddVoteBegin(r)
    \/ \E r \in Reqs : AddVoteOptions(r)
    \/ \E r \in Reqs : AddVoteExisting(r)
    \/ \E r \in Reqs : AddVoteFlush(r)
    \/ \E r \in Reqs : AddVoteCommit(r)
    \/ \E r \in Reqs : AddVoteRefresh(r)
    \/ \E r \in Reqs : AddVoteCount(r)
    \/ \E r \in Reqs : AddVoteComplete(r)
    \/ \E r \in Reqs : AddVoteTally(r)
    \/ \E r \in Reqs : AddVotePublish(r)
    \/ HasVoted
    \/ GetVoteCountBegin
    \/ GetVoteCountVotes
    \/ GetVoteCountRoster

SpecQuery == InitQuery /\ [][NextQuery]_vars

\* ------------------------------------------------------ shared vocabulary
\* requests that reached the ledger with a poll (their poll_uuid is kept)
Submitted == {r \in Reqs : req[r].poll_uuid # 0}
PollOf(r) == CHOOSE p \in polls : p.uuid = req[r].poll_uuid
Succeeded(r) == req[r].pc = "done" /\ req[r].response.status = 200
\* the voting.completed events published for the poll with this uuid
CompletedEvents(u) ==
    {i \in DOMAIN published : /\ published[i].event_type = "voting.completed"
                              /\ published[i].poll_id = u}
\* a request that committed its vote on the poll and has not yet passed the
\* completion check and flag update
CompletionPending(r, u) ==
    req[r].poll_uuid = u /\ req[r].pc \in {"refresh", "count", "complete"}
NoDuplicates(selected) == Cardinality(SeqToSet(selected)) = Len(selected)

\* ----------------------------------------------------------------- C1
\* C1: the ledger holds at most one Vote per (poll, user), and a recorded
\* vote and its selections are never changed by a later step (no merge, no
\* overwrite by a second attempt).
C1_OneVotePerUser ==
    /\ [](\A v, w \in votes : (v.poll_id = w.poll_id /\ v.user_id = w.user_id) => v = w)
    /\ [][\A v \in votes : /\ v \in votes'
                          /\ {s \in vote_selections' : s.vote_id = v.id}
                               = SelectionsOfVote(v.id)]_vars
\* a second attempt of a user on a poll has been turned away while the
\* first vote stands
C1_Witness ==
    \E r, o \in Reqs :
        /\ r # o /\ Succeeded(r) /\ req[o].pc = "done"
        /\ req[o].poll_uuid = req[r].poll_uuid /\ req[o].user = req[r].user
        /\ req[o].response.status \in {409, 500}
        /\ Cardinality(ExistingVote(PollOf(r).id, req[r].user)) = 1

\* ----------------------------------------------------------------- C2
\* C2: over a poll's life no more than one voting.completed notification is
\* published for it, also when concurrent submissions each see the vote
\* count reach expectedVoters while the poll is open.
C2_OneCompletionNotice ==
    \A p \in polls : Cardinality(CompletedEvents(p.uuid)) <= 1

\* ----------------------------------------------------------------- C3
\* C3: of the submissions of one user on one poll with valid selections,
\* exactly one succeeds and every other one ends in the DuplicateVote
\* conflict (409), no other failure.
C3_DuplicatesConflict ==
    \A r \in Submitted :
        (req[r].pc = "done" /\ NoDuplicates(req[r].selected)) =>
            /\ req[r].response.status \in {200, 409}
            /\ req[r].response.status = 409 =>
                  ExistingVote(PollOf(r).id, req[r].user) # {}
            /\ \A o \in Submitted \ {r} :
                  (Succeeded(r) /\ Succeeded(o) /\ req[o].poll_uuid = req[r].poll_uuid)
                      => req[o].user # req[r].user

\* ----------------------------------------------------------------- C4
\* C4: completed starts false when the poll row appears, and a poll that is
\* completed is completed in every later state.
C4_CompletedOneWay ==
    [][/\ \A p \in polls : p.completed =>
              /\ \E q \in polls' : q.id = p.id
              /\ \A q \in polls' : q.id = p.id => q.completed
       /\ \A q \in polls' : (\A p \in polls : p.id # q.id) => ~q.completed]_vars
\* a poll is completed, a duplicate submission was turned away, and the
\* consumer is about to commit a further poll
C4_Witness ==
    /\ \E p \in polls : p.completed
    /\ consumer.pc = "commit"
    /\ \E r \in Reqs : req[r].pc = "done" /\ req[r].response.status = 409

\* ----------------------------------------------------------------- C5
\* C5: a completed poll has a non-null expectedVoters and at least that many
\* votes; a poll with null expectedVoters is never completed and has no
\* voting.completed notification.
C5_CompletedOnlyAtThreshold ==
    \A p \in polls :
        /\ p.completed => /\ ~IsNull(p.expected_voters)
                          /\ Cardinality(VotesOf(p.id)) >= Val(p.expected_voters)
        /\ IsNull(p.expected_voters) => CompletedEvents(p.uuid) = {}
        /\ CompletedEvents(p.uuid) # {} => p.completed
\* a poll without expectedVoters holds votes of two users and all is quiet
C5_Witness ==
    \E p \in polls : /\ IsNull(p.expected_voters)
                     /\ Cardinality(VotesOf(p.id)) = 2
                     /\ \A r \in Reqs : Succeeded(r)

\* ----------------------------------------------------------------- C6
\* C6 as claimed: once a submission that recorded a vote has returned, a
\* poll with a known expectedVoters and at least that many votes is completed.
C6_CompletedOnReturn ==
    \A r \in Submitted :
        Succeeded(r) =>
            LET p == PollOf(r)
            IN  (~IsNull(p.expected_voters)
                 /\ Cardinality(VotesOf(p.id)) >= Val(p.expected_voters)) => p.completed
\* C6 amended: the same, once no other submission that committed a vote on
\* the poll is still ahead of its own completion check and flag update.
C6_CompletedWhenSettled ==
    \A r \in Submitted :
        Succeeded(r) =>
            LET p == PollOf(r)
            IN  (/\ ~IsNull(p.expected_voters)
                 /\ Cardinality(VotesOf(p.id)) >= Val(p.expected_voters)
                 /\ \A o \in Reqs \ {r} : ~CompletionPending(o, p.uuid)) => p.completed
\* two users voted on a poll expecting two, both returned, and the poll is
\* completed
C6_Witness ==
    \E r, o \in Submitted :
        /\ r # o /\ Succeeded(r) /\ Succeeded(o)
        /\ req[r].poll_uuid = req[o].poll_uuid
        /\ PollOf(r).expected_voters = Some(2)
        /\ Cardinality(VotesOf(PollOf(r).id)) = 2
        /\ PollOf(r).completed

\* ----------------------------------------------------------------- C7
\* C7: when the publish of voting.completed fails, the request still answers
\* 200, the poll stays completed, and the vote and its selections stay.
C7_PublishFailureSwallowed ==
    [][\A r \in Reqs :
        (req[r].pc = "publish" /\ req'[r].pc = "done" /\ published' = published) =>
            /\ req'[r].response.status = 200
            /\ \E p \in polls' : p.uuid = req[r].poll_uuid /\ p.completed
            /\ polls' = polls
            /\ Val(req'[r].vote) \in votes'
            /\ votes' = votes /\ vote_selections' = vote_selections]_vars
\* every request has returned, a poll is completed by a successful voter,
\* and no notification for it was published: the publish failed
C7_Witness ==
    /\ \A r \in Reqs : req[r].pc = "done"
    /\ \E r \in Submitted : /\ Succeeded(r)
                            /\ PollOf(r).completed
                            /\ CompletedEvents(req[r].poll_uuid) = {}
                            /\ Val(req[r].vote) \in votes

\* ----------------------------------------------------------------- C8
OptionValueOf(oid) == (CHOOSE o \in poll_options : o.id = oid).option_value
\* C8: a committed Vote has one VoteSelection per submitted value and at
\* least one; a vote whose transaction is open or failed has no row in the
\* store, and no selection exists without its vote.
C8_VoteAtomic ==
    /\ \A v \in votes : /\ SelectionsOfVote(v.id) # {}
                        /\ \E r \in Submitted : req[r].vote = Some(v)
    /\ \A s \in vote_selections : \E v \in votes : v.id = s.vote_id
    /\ \A r \in Submitted :
          ~IsNull(req[r].vote) =>
              LET v == Val(req[r].vote)
                  rows == SelectionsOfVote(v.id)
                  selected == req[r].selected
              IN  IF req[r].pc = "commit"
                     \/ (req[r].pc = "done" /\ req[r].response.status # 200)
                  THEN v \notin votes /\ rows = {}
                  ELSE /\ v \in votes
                       /\ Len(selected) >= 1
                       /\ Cardinality(rows) = Len(selected)
                       /\ \A i \in 1..Len(selected) :
                             Cardinality({s \in rows :
                                 OptionValueOf(s.poll_option_id) = selected[i]}) = 1
\* a submission naming the same option twice failed after its Vote insert
C8_Witness ==
    \E r \in Submitted :
        /\ req[r].pc = "done" /\ req[r].response.status = 500
        /\ ~IsNull(req[r].vote) /\ ~NoDuplicates(req[r].selected)
        /\ votes # {}

\* ----------------------------------------------------------------- C9
\* C9: a submission with a value that is no option of the poll is answered
\* 400 "Invalid option" naming the first such value, the step changes
\* nothing in the store and publishes nothing, and no request with such a
\* value ever gets past the validation.
C9_InvalidOptionRejected ==
    /\ [](\A r \in Reqs :
            req[r].pc \in {"existing", "flush", "commit"} =>
                \A i \in 1..Len(req[r].selected) :
                    \E o \in OptionsOf(Val(req[r].poll).id) :
                        o.option_value = req[r].selected[i])
    /\ [][\A r \in Reqs :
            (/\ req[r].pc = "options" /\ req'[r] # req[r]
             /\ \E i \in 1..Len(req[r].selected) :
                   \A o \in OptionsOf(Val(req[r].poll).id) :
                       o.option_value # req[r].selected[i]) =>
                /\ req'[r].pc = "done"
                /\ req'[r].response.status = 400
                /\ req'[r].response.error = "Invalid option"
                /\ \E i \in 1..Len(req[r].selected) :
                     /\ req'[r].response.detail = req[r].selected[i]
                     /\ \A o \in OptionsOf(Val(req[r].poll).id) :
                           o.option_value # req[r].selected[i]
                /\ UNCHANGED <<store, seqs, published>>]_vars
\* a request was turned away naming "X" while the poll holds a vote
C9_Witness ==
    /\ \E r \in Reqs : /\ req[r].pc = "done"
                       /\ req[r].response.error = "Invalid option"
                       /\ req[r].response.detail = "X"
    /\ votes # {}

\* ---------------------------------------------------------------- C10
\* C10: more than one selection on a single poll is answered 400 and records
\* nothing; every Vote on a single poll has exactly one selection, and its
\* rank is null.
C10_SingleOneSelection ==
    /\ [](\A v \in votes :
            (\E p \in polls : p.id = v.poll_id /\ p.poll_type = "single") =>
                /\ Cardinality(SelectionsOfVote(v.id)) = 1
                /\ \A s \in SelectionsOfVote(v.id) : IsNull(s.rank_order))
    /\ [][\A r \in Reqs :
            (/\ req[r].pc = "options" /\ req'[r] # req[r]
             /\ Val(req[r].poll).poll_type = "single"
             /\ Len(req[r].selected) > 1) =>
                /\ req'[r].pc = "done"
                /\ req'[r].response.status = 400
                /\ req'[r].response.error \in
                      {"Invalid option", "Single choice poll allows only one selection"}
                /\ UNCHANGED <<store, seqs, published>>]_vars
\* a two-value submission on a single poll was turned away for its size
\* while that kind of poll holds a vote
C10_Witness ==
    /\ \E r \in Reqs :
          /\ req[r].pc = "done"
          /\ req[r].response.error = "Single choice poll allows only one selection"
    /\ \E v \in votes : \E p \in polls : p.id = v.poll_id /\ p.poll_type = "single"

\* ---------------------------------------------------------------- C11
\* C11: a recorded Vote on a ranked poll with k selections has exactly the
\* ranks 1..k, none null and none twice, and the selection of rank i is the
\* i-th value the voter submitted.
C11_RanksFollowSubmission ==
    \A r \in Submitted :
        (~IsNull(req[r].vote) /\ Val(req[r].vote) \in votes
         /\ PollOf(r).poll_type = "ranked") =>
            LET rows == SelectionsOfVote(Val(req[r].vote).id)
                selected == req[r].selected
            IN  /\ Cardinality(rows) = Len(selected)
                /\ \A s \in rows : ~IsNull(s.rank_order)
                /\ {Val(s.rank_order) : s \in rows} = 1..Len(selected)
                /\ \A s \in rows :
                      OptionValueOf(s.poll_option_id) = selected[Val(s.rank_order)]
\* a ranked ballot of two values, B before A, is recorded
C11_Witness ==
    \E r \in Submitted :
        /\ ~IsNull(req[r].vote) /\ Val(req[r].vote) \in votes
        /\ PollOf(r).poll_type = "ranked"
        /\ req[r].selected = <<"B", "A">>

\* ---------------------------------------------------------------- C13
\* the callback has just taken a voting.create message, whose vote_data it printed
TookCreation == delivered' = delivered + 1 /\ ~IsNull(consumer'.vote_data)

InvalidCreation(vote_data) ==
    \/ vote_data.meeting_id = ""
    \/ vote_data.pollType \notin {"single", "ranked"}
    \/ Len(vote_data.options) < 2

\* C13: every stored poll has a type in {single, ranked} and at least 2 options;
\* a creation with no meeting id, another type or fewer than 2 options ends
\* with a ValueError, and creates no Poll row, no PollOption row and no
\* voting.created notification.
C13_InvalidCreationRejected ==
    /\ [](\A p \in polls : /\ p.poll_type \in {"single", "ranked"}
                            /\ Cardinality(OptionsOf(p.id)) >= 2)
    /\ [][(TookCreation /\ InvalidCreation(Val(consumer'.vote_data))) =>
              /\ consumer'.pc = "idle"
              /\ consumer'.error = "ValueError"
              /\ UNCHANGED <<store, published>>]_vars

C13_Witness ==
    /\ polls # {}
    /\ consumer.pc = "idle" /\ consumer.error = "ValueError"
    /\ ~IsNull(consumer.vote_data)
    /\ Val(consumer.vote_data).meeting_id # ""
    /\ Val(consumer.vote_data).pollType = "ranked"
    /\ Len(Val(consumer.vote_data).options) = 1

\* ---------------------------------------------------------------- C14
EmptyOrDuplicate(options) ==
    \/ \E i \in DOMAIN options : options[i] = ""
    \/ \E i, j \in DOMAIN options : i # j /\ options[i] = options[j]

\* C14: a creation whose option values hold an empty or a repeated value ends
\* with a validation error before any row is written, and the option values
\* of every stored poll are non-empty and pairwise distinct.
C14_OptionValuesChecked ==
    /\ \A o \in poll_options : o.option_value # ""
    /\ \A o1, o2 \in poll_options :
          (o1 # o2 /\ o1.poll_id = o2.poll_id) => o1.option_value # o2.option_value
    /\ (~IsNull(consumer.vote_data) /\ EmptyOrDuplicate(Val(consumer.vote_data).options)) =>
          consumer.pc = "idle" /\ consumer.error = "ValueError"

\* ---------------------------------------------------------------- C16
Creating == consumer.pc \in {"flush", "commit", "publish"}

\* C16: when the payload has no expected_voters and the roster fails, the
\* creation goes on with expected_voters null, and the poll is stored with null
\* and with all its options unless the store refuses the rows; when the payload
\* has expected_voters, the roster is not asked and the stored value is the
\* payload's.
C16_RosterFailureTolerated ==
    /\ [](Creating =>
            LET vote_data == Val(consumer.vote_data)
            IN  /\ IsNull(vote_data.expected_voters) =>
                      /\ consumer.roster # "none"
                      /\ consumer.roster = "error" => IsNull(consumer.expected_voters)
                /\ ~IsNull(vote_data.expected_voters) =>
                      /\ consumer.roster = "none"
                      /\ consumer.expected_voters = vote_data.expected_voters
                /\ consumer.pc # "flush" =>
                      Val(consumer.poll).expected_voters = consumer.expected_voters
                /\ consumer.pc = "publish" =>
                      /\ Val(consumer.poll) \in polls
                      /\ Cardinality(OptionsOf(Val(consumer.poll).id)) = Len(vote_data.options))
    /\ [][(TookCreation /\ ~InvalidCreation(Val(consumer'.vote_data))) =>
              consumer'.pc = "flush"]_vars
    /\ [][(Creating /\ consumer'.pc = "idle" /\ consumer.pc # "publish") =>
              consumer'.error = "IntegrityError"]_vars

C16_Witness ==
    /\ consumer.pc = "publish"
    /\ consumer.roster = "error"
    /\ IsNull(Val(consumer.vote_data).expected_voters)
    /\ \E p \in polls : p = Val(consumer.poll) /\ IsNull(p.expected_voters)
    /\ \E p \in polls : p # Val(consumer.poll) /\ ~IsNull(p.expected_voters)

\* ---------------------------------------------------------------- C17
\* the callback ends in this step
CallbackEnds == consumer'.pc = "idle" /\ (consumer.pc # "idle" \/ delivered' # delivered)

\* C17: a creation that fails with a validation error or a store error is
\* acknowledged, not requeued, and creates no poll; the messages requeued are
\* exactly those whose body cannot be decoded or whose handler raises.
C17_FailedCreationAcked ==
    [][CallbackEnds =>
          /\ consumer'.error \in {"ValueError", "IntegrityError"} =>
                /\ consumer'.last = "ack"
                /\ UNCHANGED <<polls, poll_options, published>>
          /\ consumer'.last = "nack" <=>
                consumer'.error \in {"JSONDecodeError", "AttributeError"}
          /\ consumer'.last \in {"ack", "nack"}]_vars

C17_Witness ==
    /\ consumer.pc = "idle" /\ consumer.last = "ack"
    /\ consumer.error = "IntegrityError"
    /\ delivered = MaxEvents
    /\ Cardinality(polls) = 1

\* ---------------------------------------------------------------- C15
\* C15: the commit of a creation stores the option of input position i with
\* order i - 1 and nothing else for the poll; listing the options of the poll by
\* order gives the input sequence; no later step changes the listing of a
\* stored poll; and get_poll answers with that listing.
C15_OptionOrderRoundTrip ==
    /\ [][(consumer.pc = "commit" /\ consumer'.pc = "publish") =>
              LET pid == Val(consumer.poll).id
                  options == Val(consumer.vote_data).options
              IN  /\ ListOptions(pid)' = options
                  /\ Cardinality(OptionsOf(pid))' = Len(options)
                  /\ \A i \in DOMAIN options : \E o \in poll_options' :
                        /\ o.poll_id = pid
                        /\ o.option_order = i - 1
                        /\ o.option_value = options[i]]_vars
    /\ [][\A p \in polls : p \in polls' /\ ListOptions(p.id)' = ListOptions(p.id)]_vars
    /\ [](consumer.pc = "publish" =>
            ListOptions(Val(consumer.poll).id) = Val(consumer.vote_data).options)
    /\ []((query.kind = "get_poll" /\ query.response.status = 200) =>
            \E p \in polls : /\ p.uuid = query.body.uuid
                              /\ query.body.options = ListOptions(p.id))

C15_Witness ==
    /\ query.kind = "get_poll" /\ query.response.status = 200
    /\ query.body.options = <<"B", "A", "C">>
    /\ \E p \in polls : p.uuid > query.body.uuid
    /\ consumer.pc = "idle"

\* ---------------------------------------------------------------- C12
\* the requests whose vote on the poll is recorded
Recorded(pid) ==
    {r \in Submitted : /\ ~IsNull(req[r].vote)
                        /\ Val(req[r].vote) \in votes
                        /\ Val(req[r].vote).poll_id = pid}

\* the number of recorded ballots that count for the option value: on a single
\* poll the ballots that name it, on a ranked poll those that name it first
BallotsFor(pid, ptype, val) ==
    Cardinality({r \in Recorded(pid) :
                    IF ptype = "single" THEN val \in SeqToSet(req[r].selected)
                    ELSE req[r].selected[1] = val})

Created(p) == [id |-> p.id, uuid |-> p.uuid, meeting_id |-> p.meeting_id,
               poll_type |-> p.poll_type, expected_voters |-> p.expected_voters]

\* C18: no step of add_vote, has_voted or get_vote_count adds or removes a
\* poll or an option, or changes a poll's type, meeting id, expected_voters or
\* options; and the poll a request judges completion on has the stored
\* expected_voters.
C18_VoteFrame ==
    /\ [][/\ {Created(p) : p \in polls'} = {Created(p) : p \in polls}
          /\ Cardinality(polls') = Cardinality(polls)
          /\ poll_options' = poll_options]_vars
    /\ [](\A r \in Reqs : ~IsNull(req[r].poll) =>
            \E p \in polls : Created(p) = Created(Val(req[r].poll)))

C18_Witness ==
    /\ \E p \in polls : p.completed
    /\ \E r \in Reqs : req[r].pc = "done" /\ req[r].response.status = 409
    /\ \E r \in Reqs : req[r].pc = "done" /\ req[r].response.status = 200
    /\ query.kind = "get_vote_count" /\ query.response.status = 200

\* ---------------------------------------------------------------- C19
\* a request that works on a poll it has read as completed, up to its
\* completion check
LateVote(r) ==
    /\ req[r].pc \in {"options", "existing", "flush", "commit", "refresh", "count"}
    /\ ~IsNull(req[r].poll)
    /\ Val(req[r].poll).completed

\* C19: a request that has read the poll as completed is not refused for it:
\* its commit records the vote when the ballot names no option twice, and its
\* completion check answers 200 with the vote recorded; none of its steps
\* publishes a notification or takes it to the flag update.
C19_LateVoteRecorded ==
    [][\A r \in Reqs : (LateVote(r) /\ req'[r] # req[r]) =>
          /\ published' = published
          /\ polls' = polls
          /\ req'[r].pc \notin {"complete", "tally", "publish"}
          /\ (req[r].pc = "commit" /\ NoDuplicates(req[r].selected)) =>
                /\ Val(req[r].vote) \in votes'
                /\ req'[r].pc = "refresh"
          /\ req[r].pc = "count" =>
                /\ Succeeded(r)'
                /\ Val(req'[r].vote) \in votes]_vars

C19_Witness ==
    \E r \in Reqs :
        /\ LateVote(r) /\ req[r].pc = "count"
        /\ Val(req[r].vote) \in votes
        /\ Cardinality(VotesOf(Val(req[r].poll).id)) > Val(Val(req[r].poll).expected_voters)
        /\ Cardinality(CompletedEvents(req[r].poll_uuid)) = 1
        /\ \A q \in Reqs \ {r} : req[q].pc = "done"

\* ---------------------------------------------------------------- C20
RECURSIVE SumOver(_, _)
SumOver(results, vals) ==
    IF vals = {} THEN 0
    ELSE LET val == CHOOSE v \in vals : TRUE
         IN  results[val] + SumOver(results, vals \ {val})

\* C20: the counts in the results of every published voting.completed
\* notification sum to its total_votes.
C20_NotificationConsistent ==
    \A i \in DOMAIN published :
        published[i].event_type = "voting.completed" =>
            SumOver(published[i].results, DOMAIN published[i].results)
                = published[i].total_votes

\* ---------------------------------------------------------------- C21
\* the selections of a vote that the tally of a poll of this type counts
CountedSelections(v, ptype) ==
    {s \in SelectionsOfVote(v.id) : ptype = "single" \/ s.rank_order = Some(1)}

\* C21: in every committed state and for every poll, the counts of the tally sum
\* to the number of the poll's votes; every vote has a selection, and exactly
\* one of its selections is counted, for an option of the poll.
C21_TallySumsToVotes ==
    \A p \in polls :
        /\ SumOver(Tally(p.id, p.poll_type), DOMAIN Tally(p.id, p.poll_type))
              = Cardinality(VotesOf(p.id))
        /\ SumOver(VoteCounts(p.id, p.poll_type), DOMAIN VoteCounts(p.id, p.poll_type))
              = Cardinality(VotesOf(p.id))
        /\ \A v \in VotesOf(p.id) :
              /\ SelectionsOfVote(v.id) # {}
              /\ Cardinality(CountedSelections(v, p.poll_type)) = 1
              /\ \A s \in CountedSelections(v, p.poll_type) :
                    \E o \in OptionsOf(p.id) : o.id = s.poll_option_id

C21_Witness ==
    /\ \E p \in polls : /\ p.poll_type = "ranked"
                         /\ \E v \in VotesOf(p.id) : Cardinality(SelectionsOfVote(v.id)) = 2
    /\ \E r \in Reqs : /\ req[r].pc = "done"
                        /\ req[r].response = Response(400, "No options selected", "")
    /\ \E p \in polls : p.poll_type = "single"

\* ---------------------------------------------------------------- C22
\* the voting.created events published for the poll with this id
CreatedEvents(id) ==
    {i \in DOMAIN published : /\ published[i].event_type = "voting.created"
                              /\ published[i].poll_id = id}

\* both instances have settled the same voting.create event, one that carries
\* a poll_id and meets the creation contract
Redelivered ==
    /\ consumer.pc = "idle" /\ replica.pc = "idle"
    /\ ~IsNull(replica.vote_data)
    /\ replica.vote_data = consumer.vote_data
    /\ ~IsNull(Val(replica.vote_data).poll_id)
    /\ ~InvalidCreation(Val(replica.vote_data))
    /\ ~EmptyOrDuplicate(Val(replica.vote_data).options)

\* a handling of an event with a poll_id that finds the id stored ends there,
\* with the store and the notifications as they were
SecondHandlingInert(h, hNext) ==
    (/\ h.pc = "flush" /\ hNext # h
     /\ ~IsNull(Val(h.vote_data).poll_id)
     /\ PollById(Val(Val(h.vote_data).poll_id)) # {}) =>
        /\ hNext.pc = "idle"
        /\ UNCHANGED <<store, published>>

\* C22 as stated: after the same valid event with a poll_id was handled twice,
\* there is one Poll with that id, the second handling changed nothing, and
\* exactly one voting.created notification was published for the id.
C22_OneNotification ==
    /\ [](Redelivered =>
            LET id == Val(Val(replica.vote_data).poll_id)
            IN  /\ Cardinality(PollById(id)) = 1
                /\ Cardinality(CreatedEvents(id)) = 1)
    /\ [][SecondHandlingInert(consumer, consumer')]_vars
    /\ [][SecondHandlingInert(replica, replica')]_vars

\* C22, amended: after the same valid event with a poll_id was handled twice,
\* in turn or at the same time, there is one Poll with that id; at most one of
\* the two handlings created it, the other ended with an IntegrityError and
\* changed nothing; when one of them created it, the poll has the event's
\* attributes and one copy of its options; and at most one voting.created
\* notification was published for the id.
C22_RedeliveryIdempotent ==
    /\ [](Redelivered =>
            LET vote_data == Val(replica.vote_data)
                id == Val(vote_data.poll_id)
                creators == {h \in {consumer, replica} : h.error = ""}
            IN  /\ Cardinality(PollById(id)) = 1
                /\ Cardinality(CreatedEvents(id)) <= 1
                /\ ~(consumer.error = "" /\ replica.error = "")
                /\ \A h \in {consumer, replica} : h.error \in {"", "IntegrityError"}
                /\ creators # {} =>
                      /\ ListOptions(id) = vote_data.options
                      /\ \A p \in PollById(id) : /\ p.meeting_id = vote_data.meeting_id
                                                  /\ p.poll_type = vote_data.pollType)
    /\ [][SecondHandlingInert(consumer, consumer')]_vars
    /\ [][SecondHandlingInert(replica, replica')]_vars
    /\ [][\A p \in polls : p \in polls' /\ OptionsOf(p.id)' = OptionsOf(p.id)]_vars

C22_Witness ==
    /\ Redelivered
    /\ consumer.error = "IntegrityError"
    /\ replica.error = ""
    /\ Cardinality(CreatedEvents(Val(Val(replica.vote_data).poll_id))) = 1

====
